---- MODULE Spec2Model ----
(***************************************************************************)
(* Verification model of the OpenFOAM runner:                              *)
(*   simulation.py    SimulationManager: case construction, parameter       *)
(*                    injection, solver invocation                          *)
(*   app.py           the RUN SIMULATION handler that chains the stages     *)
(*   post_process.py  Nusselt-number extraction (parse_h_values, CSV)       *)
(*                                                                         *)
(* Text is modelled as Python sees it in text mode: a string is a sequence *)
(* of one-character strings, a file is the sequence of lines that          *)
(* `for line in f` / readlines() yields (each line keeps its "\n", the     *)
(* last line may lack it).                                                 *)
(***************************************************************************)
EXTENDS Integers, Sequences, FiniteSets, TLC

VARIABLES
    now,          \* wall clock, in whole seconds
    template,     \* the working template directory ./CASE_TEMPLATE
    cases,        \* the directories under cases/ : case_dir -> directory
    stl_tmp,      \* /tmp/stl_inputs : file name -> content
    session,      \* per front-end session: the handler's locals and position
    child,        \* per session: the solver child process and its pipe
    p_lines,      \* parse_h_values: lines
    p_idx,        \* parse_h_values: position of the for loop
    data_started, \* parse_h_values: data_started
    h_values,     \* parse_h_values: h_values
    p_pc,         \* parse_h_values: "loop" | "returned"
    entries,      \* post_process: the listing of case_dir (name -> entry)
    csv,          \* post_process: assets/nusselt_numbers.csv
    time_dirs,    \* post_process: time_dirs
    t_idx,        \* post_process: position of the loop over time_dirs
    examined,     \* post_process: the timesteps whose field file was looked at
    diag,         \* post_process: what was printed
    L_char,       \* post_process argument
    k_fluid,      \* post_process argument
    x_pc          \* post_process: position

pipeVars    == <<now, template, cases, stl_tmp, session, child>>
parseVars   == <<p_lines, p_idx, data_started, h_values, p_pc>>
extractVars == <<entries, csv, time_dirs, t_idx, examined, diag, L_char, k_fluid, x_pc>>
vars        == <<pipeVars, parseVars, extractVars>>

----------------------------------------------------------------------------
(* Bounds of the model *)

\* lines of context around the line under test in a configuration file
MaxCtx == 1
\* the clock stops after this many seconds
MaxNow == 1
\* lines the solver children write at most, all together
MaxOut == 2
\* lines of a field file
MaxFieldLines == 5
\* entries of the case directory
MaxEntries == 3

----------------------------------------------------------------------------
(* Python str operations *)

\* str.isspace() characters that occur in the modelled text
Whitespace == {" ", "\t", "\n"}

RECURSIVE LStrip(_)
LStrip(s) ==
    IF s # <<>> /\ Head(s) \in Whitespace THEN LStrip(Tail(s)) ELSE s

RECURSIVE RStrip(_)
RStrip(s) ==
    IF s # <<>> /\ s[Len(s)] \in Whitespace
    THEN RStrip(SubSeq(s, 1, Len(s) - 1)) ELSE s

\* str.strip()
Strip(s) == RStrip(LStrip(s))

\* str.startswith(prefix)
StartsWith(s, prefix) ==
    /\ Len(s) >= Len(prefix)
    /\ SubSeq(s, 1, Len(prefix)) = prefix

\* the first whitespace-free run of s (s does not start with whitespace)
RECURSIVE FirstToken(_)
FirstToken(s) ==
    IF s = <<>> \/ Head(s) \in Whitespace THEN <<>>
    ELSE <<Head(s)>> \o FirstToken(Tail(s))

\* str.split() with no argument: the whitespace-separated tokens
RECURSIVE Split(_)
Split(s) ==
    LET t == LStrip(s) IN
    IF t = <<>> THEN <<>>
    ELSE LET tok == FirstToken(t) IN
         <<tok>> \o Split(SubSeq(t, Len(tok) + 1, Len(t)))

\* " ".join(parts)
RECURSIVE Join(_)
Join(parts) ==
    IF parts = <<>> THEN <<>>
    ELSE IF Len(parts) = 1 THEN parts[1]
    ELSE parts[1] \o <<" ">> \o Join(Tail(parts))

Spaces(n) == [i \in 1..n |-> " "]

----------------------------------------------------------------------------
(* simulation.py: parameter injection *)

K_startTime == <<"s","t","a","r","t","T","i","m","e">>
K_endTime   == <<"e","n","d","T","i","m","e">>
K_deltaT    == <<"d","e","l","t","a","T">>
K_mu        == <<"m","u">>
K_Pr        == <<"P","r">>

\* columns of padding the f-strings of _update_control_dict put after the key
PadStartTime == 7
PadEndTime   == 9
PadDeltaT    == 10

\* one iteration of the loop of _update_control_dict: the line appended
ControlDictLine_Stripped(line, inputs) ==
    IF StartsWith(Strip(line), K_startTime)
    THEN K_startTime \o Spaces(PadStartTime) \o inputs.startTime \o <<";", "\n">>
    ELSE IF StartsWith(Strip(line), K_endTime)
    THEN K_endTime \o Spaces(PadEndTime) \o inputs.endTime \o <<";", "\n">>
    ELSE IF StartsWith(Strip(line), K_deltaT)
    THEN K_deltaT \o Spaces(PadDeltaT) \o inputs.deltaT \o <<";", "\n">>
    ELSE Strip(line) \o <<"\n">>

ControlDictLine(line, inputs) ==
    IF StartsWith(Strip(line), K_startTime)
    THEN K_startTime \o Spaces(PadStartTime) \o inputs.startTime \o <<";", "\n">>
    ELSE IF StartsWith(Strip(line), K_endTime)
    THEN K_endTime \o Spaces(PadEndTime) \o inputs.endTime \o <<";", "\n">>
    ELSE IF StartsWith(Strip(line), K_deltaT)
    THEN K_deltaT \o Spaces(PadDeltaT) \o inputs.deltaT \o <<";", "\n">>
    ELSE line

\* parts[-1] = f"{value};" ; " ".join(parts) + "\n"
ReplaceLast(line, value) ==
    LET parts == Split(line) IN
    Join([parts EXCEPT ![Len(parts)] = value \o <<";">>]) \o <<"\n">>

\* the same with the line's own separators kept (what the code does not do)
PhysicalPropertiesLine_KeepLayout(line, inputs) ==
    LET keep(value) ==
            LET body == RStrip(line)
                last == Split(line)[Len(Split(line))]
            IN  SubSeq(body, 1, Len(body) - Len(last)) \o value \o <<";", "\n">>
    IN
    IF StartsWith(Strip(line), K_mu \o <<" ">>) THEN keep(inputs.mu)
    ELSE IF StartsWith(Strip(line), K_Pr \o <<" ">>) THEN keep(inputs.Pr)
    ELSE line

\* one iteration of the loop of _update_physical_properties
PhysicalPropertiesLine(line, inputs) ==
    IF StartsWith(Strip(line), K_mu \o <<" ">>) THEN ReplaceLast(line, inputs.mu)
    ELSE IF StartsWith(Strip(line), K_Pr \o <<" ">>) THEN ReplaceLast(line, inputs.Pr)
    ELSE line

\* _update_control_dict: the lines written back
UpdateControlDict(file, inputs) ==
    [i \in 1..Len(file) |-> ControlDictLine(file[i], inputs)]

\* _update_physical_properties: the lines written back
UpdatePhysicalProperties(file, inputs) ==
    [i \in 1..Len(file) |-> PhysicalPropertiesLine(file[i], inputs)]

----------------------------------------------------------------------------
(* The file system and the front-end sessions *)

\* concurrent front-end sessions (Streamlit runs each session's script in its
\* own thread of one process, all with the same working directory)
Sessions == {1, 2}

\* the parameters typed into the sidebar; session 1 keeps the defaults
InputsA ==
    [ mu        |-> <<"1","e","-","3">>,
      Pr        |-> <<"0",".","7","1">>,
      startTime |-> <<"0">>,
      endTime   |-> <<"1","0">>,
      deltaT    |-> <<"0",".","0","0","1">> ]

InputsB ==
    [ mu        |-> <<"2","e","-","5">>,
      Pr        |-> <<"7">>,
      startTime |-> <<"5">>,
      endTime   |-> <<"5","0">>,
      deltaT    |-> <<"0",".","1">> ]

ParamsOf(r) == IF r = 1 THEN InputsA ELSE InputsB

\* an empty directory listing / an empty mapping
Empty == <<>>

NoTri == [kind |-> "none", files |-> Empty]

\* a directory that os.makedirs created on the way to a leaf
Skeleton == [files |-> Empty, tri |-> NoTri, assets |-> FALSE]

MissingTemplate == [exists |-> FALSE, files |-> Empty]

\* ./CASE_TEMPLATE as the app's set-up (app.py 52-58) leaves it when the
\* source template is complete
SourceTemplate ==
    [ exists |-> TRUE,
      files  |-> ( "controlDict" :>
                     << K_startTime \o <<" ","9",";","\n">>,
                        K_endTime \o <<"\t","9",";","\n">> >>
                   @@ "physicalProperties" :>
                     << <<" "," ">> \o K_mu \o <<" ","9",";","\n">> >> ) ]

Remove(f, x) == [y \in (DOMAIN f) \ {x} |-> f[y]]

Put(f, x, v) == (x :> v) @@ f

\* time.strftime("%Y%m%d-%H%M%S"): the clock, to the second
RunId_Unique(r, t) == <<t, r>>

RunId(r, t) == <<t>>

\* os.path.join("cases", f"case_{run_id}")
CaseDir(run_id) == run_id

\* the script run is over: run_simulation's locals and the Popen object are gone
Ended(s) == [s EXCEPT !.pc = "done", !.logs = <<>>]

\* the handler after an exception left the try block
Raised_Swallowed(s, e) == [s EXCEPT !.pc = "popen", !.err = e, !.case_dir = s.cdir]

Raised(s, e) == [s EXCEPT !.pc = "except", !.err = e]

NoChild == [state |-> "none", exit |-> 0, pipe |-> <<>>, emitted |-> <<>>]

NewSession(pc0, params0) ==
    [ pc |-> pc0, params |-> params0, uploaded |-> <<>>,
      stamp |-> 0, run_id |-> <<>>, cdir |-> <<>>, case_dir |-> <<>>, created |-> FALSE,
      err |-> "", ui |-> <<>>, logs |-> <<>>, returned |-> FALSE,
      spawned |-> 0, post_started |-> FALSE ]

Say(s, what) == [s EXCEPT !.ui = Append(@, what)]

----------------------------------------------------------------------------
(* app.py: the script of one session *)

\* what the file uploader holds when the button is pressed
StlChoices == { <<>>, <<"wing.stl">> }

\* app.py 83-86
Button(r) ==
    /\ session[r].pc = "button"
    /\ \E files \in StlChoices :
         session' = [session EXCEPT ![r] =
                       IF files = <<>>
                       THEN Say([@ EXCEPT !.pc = "done"], "error:upload")
                       ELSE [@ EXCEPT !.pc = "upload", !.uploaded = files]]
    /\ UNCHANGED <<now, template, cases, stl_tmp, child, parseVars, extractVars>>

\* app.py 88-97
Upload(r) ==
    /\ session[r].pc = "upload"
    /\ stl_tmp' = [n \in DOMAIN stl_tmp \cup {session[r].uploaded[i] : i \in DOMAIN session[r].uploaded}
                     |-> IF \E i \in DOMAIN session[r].uploaded : session[r].uploaded[i] = n
                         THEN r ELSE stl_tmp[n]]
    /\ session' = [session EXCEPT ![r].pc = "strftime"]
    /\ UNCHANGED <<now, template, cases, child, parseVars, extractVars>>

----------------------------------------------------------------------------
(* simulation.py: create_case_from_template, statement by statement *)

\* simulation.py 17-18
Strftime(r) ==
    /\ session[r].pc = "strftime"
    /\ session' = [session EXCEPT ![r].pc = "remove_old",
                                  ![r].stamp = now,
                                  ![r].run_id = RunId(r, now),
                                  ![r].cdir = CaseDir(RunId(r, now))]
    /\ UNCHANGED <<now, template, cases, stl_tmp, child, parseVars, extractVars>>

\* simulation.py 21-22
RemoveOld(r) ==
    /\ session[r].pc = "remove_old"
    /\ cases' = IF session[r].cdir \in DOMAIN cases
                THEN Remove(cases, session[r].cdir) ELSE cases
    /\ session' = [session EXCEPT ![r].pc = "copytree"]
    /\ UNCHANGED <<now, template, stl_tmp, child, parseVars, extractVars>>

\* simulation.py 23
CopyTree(r) ==
    /\ session[r].pc = "copytree"
    /\ IF ~template.exists
       THEN /\ session' = [session EXCEPT ![r] = Raised(@, "FileNotFoundError")]
            /\ UNCHANGED cases
       ELSE IF session[r].cdir \in DOMAIN cases
       THEN /\ session' = [session EXCEPT ![r] = Raised(@, "FileExistsError")]
            /\ UNCHANGED cases
       ELSE /\ cases' = Put(cases, session[r].cdir,
                            [files |-> template.files, tri |-> NoTri, assets |-> FALSE])
            /\ session' = [session EXCEPT ![r].pc = "makedirs"]
    /\ UNCHANGED <<now, template, stl_tmp, child, parseVars, extractVars>>

\* simulation.py 26-27
MakeDirs(r) ==
    /\ session[r].pc = "makedirs"
    /\ LET d   == session[r].cdir
           dir == IF d \in DOMAIN cases THEN cases[d] ELSE Skeleton
       IN  IF dir.tri.kind = "file"
           THEN /\ session' = [session EXCEPT ![r] = Raised(@, "FileExistsError")]
                /\ UNCHANGED cases
           ELSE /\ cases' = Put(cases, d,
                                [dir EXCEPT !.tri = [kind |-> "dir", files |-> @.files]])
                /\ session' = [session EXCEPT ![r].pc = "copy_stl"]
    /\ UNCHANGED <<now, template, stl_tmp, child, parseVars, extractVars>>

\* shutil.copy(src, dst) for every path of the list, into triSurface
RECURSIVE CopyAll(_, _)
CopyAll(tri, paths) ==
    IF paths = <<>> THEN tri
    ELSE CopyAll(
           IF tri.kind = "dir"
           THEN [tri EXCEPT !.files = Put(@, Head(paths), stl_tmp[Head(paths)])]
           ELSE [kind |-> "file", files |-> Put(Empty, "triSurface", stl_tmp[Head(paths)])],
           Tail(paths))

\* simulation.py 30-36 (every path the handler builds is a str, so the
\* isinstance test of line 32 passes)
CopyStl(r) ==
    /\ session[r].pc = "copy_stl"
    /\ LET d == session[r].cdir IN
       IF d \notin DOMAIN cases
       THEN /\ session' = [session EXCEPT ![r] = Raised(@, "FileNotFoundError")]
            /\ UNCHANGED cases
       ELSE /\ cases' = [cases EXCEPT ![d].tri = CopyAll(@, session[r].uploaded)]
            /\ session' = [session EXCEPT ![r].pc = "update_control"]
    /\ UNCHANGED <<now, template, stl_tmp, child, parseVars, extractVars>>

\* simulation.py 39, 46-59
UpdateControl(r) ==
    /\ session[r].pc = "update_control"
    /\ LET d == session[r].cdir IN
       IF d \notin DOMAIN cases \/ "controlDict" \notin DOMAIN cases[d].files
       THEN /\ session' = [session EXCEPT ![r] = Raised(@, "FileNotFoundError")]
            /\ UNCHANGED cases
       ELSE /\ cases' = [cases EXCEPT ![d].files["controlDict"] =
                           UpdateControlDict(@, session[r].params)]
            /\ session' = [session EXCEPT ![r].pc = "update_physical"]
    /\ UNCHANGED <<now, template, stl_tmp, child, parseVars, extractVars>>

\* simulation.py 42, 61-76
UpdatePhysical(r) ==
    /\ session[r].pc = "update_physical"
    /\ LET d == session[r].cdir IN
       IF d \notin DOMAIN cases \/ "physicalProperties" \notin DOMAIN cases[d].files
       THEN /\ session' = [session EXCEPT ![r] = Raised(@, "FileNotFoundError")]
            /\ UNCHANGED cases
       ELSE /\ cases' = [cases EXCEPT ![d].files["physicalProperties"] =
                           UpdatePhysicalProperties(@, session[r].params)]
            /\ session' = [session EXCEPT ![r].pc = "return_case"]
    /\ UNCHANGED <<now, template, stl_tmp, child, parseVars, extractVars>>

\* simulation.py 44 ; app.py 101-102
ReturnCase(r) ==
    /\ session[r].pc = "return_case"
    /\ LET s == session[r] IN
       session' = [session EXCEPT ![r] =
                     Say([s EXCEPT !.pc = "popen", !.case_dir = s.cdir, !.created = TRUE],
                         "success:case")]
    /\ UNCHANGED <<now, template, cases, stl_tmp, child, parseVars, extractVars>>

----------------------------------------------------------------------------
(* simulation.py: run_simulation, and the solver child *)

\* the lines the solver may write to its merged stdout/stderr
SolverLines == { <<"T","i","m","e","\n">>, <<"E","r","r","\n">> }

\* exit statuses of the child
ExitCodes == {0, 1}

\* simulation.py 87-93
Popen(r) ==
    /\ session[r].pc = "popen"
    /\ session' = [session EXCEPT ![r].pc = "read", ![r].spawned = @ + 1,
                                  ![r].logs = <<>>]
    /\ child' = [child EXCEPT ![r] = [NoChild EXCEPT !.state = "running"]]
    /\ UNCHANGED <<now, template, cases, stl_tmp, parseVars, extractVars>>

RECURSIVE SumOver(_, _)
SumOver(f, S) ==
    IF S = {} THEN 0
    ELSE LET x == CHOOSE y \in S : TRUE IN f[x] + SumOver(f, S \ {x})

\* lines written so far by all solver children
TotalEmitted == SumOver([r \in Sessions |-> Len(child[r].emitted)], Sessions)

\* the child writes one line to the pipe
ChildWrite(r) ==
    /\ child[r].state = "running"
    /\ TotalEmitted < MaxOut
    /\ \E line \in SolverLines :
         child' = [child EXCEPT ![r].pipe = Append(@, line),
                                ![r].emitted = Append(@, line)]
    /\ UNCHANGED <<now, template, cases, stl_tmp, session, parseVars, extractVars>>

\* the child terminates; its end of the pipe closes
ChildExit(r) ==
    /\ child[r].state = "running"
    /\ \E code \in ExitCodes :
         child' = [child EXCEPT ![r].state = "exited", ![r].exit = code]
    /\ UNCHANGED <<now, template, cases, stl_tmp, session, parseVars, extractVars>>

\* the iterator over process.stdout is exhausted: nothing buffered, writer gone
AtEOF_Early(c) == c.pipe = <<>>

AtEOF(c) == c.pipe = <<>> /\ c.state = "exited"

\* simulation.py 94-95, one iteration
ReadLine(r) ==
    /\ session[r].pc = "read"
    /\ child[r].pipe # <<>>
    /\ session' = [session EXCEPT ![r].logs = @ \o Head(child[r].pipe)]
    /\ child' = [child EXCEPT ![r].pipe = Tail(@)]
    /\ UNCHANGED <<now, template, cases, stl_tmp, parseVars, extractVars>>

\* simulation.py 94, the loop ends
EndOfStream(r) ==
    /\ session[r].pc = "read"
    /\ AtEOF(child[r])
    /\ session' = [session EXCEPT ![r].pc = "wait"]
    /\ UNCHANGED <<now, template, cases, stl_tmp, child, parseVars, extractVars>>

\* simulation.py 96-98 ; app.py 105-107
WaitReturn(r) ==
    /\ session[r].pc = "wait"
    /\ child[r].state = "exited"
    /\ session' = [session EXCEPT ![r] =
                     Say([@ EXCEPT !.pc = "post", !.returned = TRUE], "text_area:logs")]
    /\ UNCHANGED <<now, template, cases, stl_tmp, child, parseVars, extractVars>>

----------------------------------------------------------------------------
(* app.py: post-processing and the end of the handler *)

\* app.py 110-112, 15-30: assets directory, then the blocking pvpython child
PostProcess(r) ==
    /\ session[r].pc = "post"
    /\ LET d   == session[r].case_dir
           dir == IF d \in DOMAIN cases THEN cases[d] ELSE Skeleton
       IN  cases' = Put(cases, d, [dir EXCEPT !.assets = TRUE])
    /\ session' = [session EXCEPT ![r].pc = "show", ![r].post_started = TRUE]
    /\ UNCHANGED <<now, template, stl_tmp, child, parseVars, extractVars>>

\* app.py 113-129
Show(r) ==
    /\ session[r].pc = "show"
    /\ LET d == session[r].case_dir IN
       IF d \in DOMAIN cases /\ cases[d].assets
       THEN /\ session' = [session EXCEPT ![r] =
                             Say(Say(Ended(@), "success:post"), "images")]
            /\ child' = [child EXCEPT ![r] = NoChild]
       ELSE /\ session' = [session EXCEPT ![r] =
                             Raised(Say(@, "success:post"), "FileNotFoundError")]
            /\ UNCHANGED child
    /\ UNCHANGED <<now, template, cases, stl_tmp, parseVars, extractVars>>

\* app.py 131-132
Except(r) ==
    /\ session[r].pc = "except"
    /\ session' = [session EXCEPT ![r] = Say(Ended(@), "error:exception")]
    /\ child' = [child EXCEPT ![r] = NoChild]
    /\ UNCHANGED <<now, template, cases, stl_tmp, parseVars, extractVars>>

\* a clock tick
Tick ==
    /\ now < MaxNow
    /\ now' = now + 1
    /\ UNCHANGED <<template, cases, stl_tmp, session, child, parseVars, extractVars>>

----------------------------------------------------------------------------
(* Initial values of the parts a specification leaves alone *)

PipeIdle ==
    /\ now = 0
    /\ template = MissingTemplate
    /\ cases = Empty
    /\ stl_tmp = Empty
    /\ session = [r \in Sessions |-> NewSession("off", ParamsOf(r))]
    /\ child = [r \in Sessions |-> NoChild]

ParseIdle ==
    /\ p_lines = <<>>
    /\ p_idx = 0
    /\ data_started = FALSE
    /\ h_values = <<>>
    /\ p_pc = "off"

ExtractIdle ==
    /\ entries = Empty
    /\ csv = <<>>
    /\ time_dirs = <<>>
    /\ t_idx = 0
    /\ examined = {}
    /\ diag = <<>>
    /\ L_char = 0
    /\ k_fluid = 0
    /\ x_pc = "off"

----------------------------------------------------------------------------
(* The pipeline *)

\* a template whose set-up left one configuration file out
Without(t, name) == [t EXCEPT !.files = Remove(@, name)]

\* what app.py 52-58 can leave at ./CASE_TEMPLATE
TemplateOutcomes ==
    { SourceTemplate, MissingTemplate,
      Without(SourceTemplate, "controlDict"),
      Without(SourceTemplate, "physicalProperties") }

CreateStep(r) ==
    \/ Strftime(r)
    \/ RemoveOld(r)
    \/ CopyTree(r)
    \/ MakeDirs(r)
    \/ CopyStl(r)
    \/ UpdateControl(r)
    \/ UpdatePhysical(r)
    \/ ReturnCase(r)

SessionStep(r) ==
    \/ Button(r)
    \/ Upload(r)
    \/ CreateStep(r)
    \/ Popen(r)
    \/ ChildWrite(r)
    \/ ChildExit(r)
    \/ ReadLine(r)
    \/ EndOfStream(r)
    \/ WaitReturn(r)
    \/ PostProcess(r)
    \/ Show(r)
    \/ Except(r)

Next ==
    \/ \E r \in Sessions : SessionStep(r)
    \/ Tick

\* one session presses RUN SIMULATION
Init ==
    /\ now = 0
    /\ template \in TemplateOutcomes
    /\ cases = Empty
    /\ stl_tmp = Empty
    /\ session = [r \in Sessions |->
                    NewSession(IF r = 1 THEN "button" ELSE "off", ParamsOf(r))]
    /\ child = [r \in Sessions |-> NoChild]
    /\ ParseIdle
    /\ ExtractIdle

Spec == Init /\ [][Next]_vars

\* two sessions press RUN SIMULATION
InitRace ==
    /\ now = 0
    /\ template \in TemplateOutcomes
    /\ cases = Empty
    /\ stl_tmp = Empty
    /\ session = [r \in Sessions |-> NewSession("button", ParamsOf(r))]
    /\ child = [r \in Sessions |-> NoChild]
    /\ ParseIdle
    /\ ExtractIdle

SpecRace == InitRace /\ [][Next]_vars

----------------------------------------------------------------------------
(* create_case_from_template over a family of template files *)

Leads == { <<>>, <<" ", " ">>, <<"\t">> }

Heads == { K_startTime, K_endTime, K_deltaT, K_mu, K_Pr, <<"n", "u">> }

Seps == { <<>>, <<" ">>, <<" ", " ", " ">>, <<"\t">> }

Mids == { <<>>, <<"[", "1", "]", " ">> }

Vals == { <<"9", ";">>, <<"9">>, <<>> }

\* the lines under test: indentation, first word, separator, tokens, value
TestLines ==
    { lead \o head \o sep \o mid \o val \o <<"\n">> :
        lead \in Leads, head \in Heads, sep \in Seps, mid \in Mids, val \in Vals }

\* the lines around it
CtxLines ==
    { <<"\n">>,
      <<"/", "/", " ">> \o K_mu \o <<"\n">>,
      <<" ">> \o K_deltaT \o <<" ", "1", ";", "\n">> }

RECURSIVE SeqsUpTo(_, _)
SeqsUpTo(S, n) ==
    IF n = 0 THEN { <<>> }
    ELSE LET shorter == SeqsUpTo(S, n - 1) IN
         shorter \cup { Append(q, x) : q \in shorter, x \in S }

\* a text file may end without a newline
DropFinalNewline(file) ==
    [file EXCEPT ![Len(file)] = SubSeq(@, 1, Len(@) - 1)]

TemplateFiles ==
    LET ctx == SeqsUpTo(CtxLines, MaxCtx)
        around == { pp \in ctx \X ctx : Len(pp[1]) + Len(pp[2]) <= MaxCtx }
        framed == { pp[1] \o <<line>> \o pp[2] : line \in TestLines, pp \in around }
    IN  framed \cup { DropFinalNewline(f) : f \in { g \in framed : Len(g[Len(g)]) > 1 } }

InitInject ==
    /\ now = 0
    /\ \E f \in TemplateFiles :
         template = [ exists |-> TRUE,
                      files  |-> ("controlDict" :> f @@ "physicalProperties" :> f) ]
    /\ cases = Empty
    /\ stl_tmp = ("wing.stl" :> 1)
    /\ \E p \in {InputsA, InputsB} :
         session = [r \in Sessions |->
                      IF r = 1
                      THEN [NewSession("strftime", p) EXCEPT !.uploaded = <<"wing.stl">>]
                      ELSE NewSession("off", ParamsOf(r))]
    /\ child = [r \in Sessions |-> NoChild]
    /\ ParseIdle
    /\ ExtractIdle

NextInject == CreateStep(1)

SpecInject == InitInject /\ [][NextInject]_vars

----------------------------------------------------------------------------
(* post_process.py: numbers *)

\* Numbers are held exactly, as integers counting 1/Unit; the texts of the
\* model have at most two decimals, so float() and the sums lose nothing.
Unit == 10 * 10

DigitChars == <<"0", "1", "2", "3", "4", "5", "6", "7", "8", "9">>

Digits == { DigitChars[i] : i \in DOMAIN DigitChars }

DigitVal(c) == (CHOOSE i \in DOMAIN DigitChars : DigitChars[i] = c) - 1

\* str.isdigit()
IsDigit(s) == s # <<>> /\ \A i \in DOMAIN s : s[i] \in Digits

RECURSIVE NatOf(_)
NatOf(s) ==
    IF s = <<>> THEN 0
    ELSE NatOf(SubSeq(s, 1, Len(s) - 1)) * 10 + DigitVal(s[Len(s)])

RECURSIVE Pow10(_)
Pow10(n) == IF n = 0 THEN 1 ELSE 10 * Pow10(n - 1)

NotANumber == [ok |-> FALSE, val |-> 0]

\* float(s) on the decimal texts of the model: optional sign, digits with at
\* most one point, at least one digit; ok = FALSE stands for ValueError
Float(s) ==
    LET signed == s # <<>> /\ Head(s) \in {"+", "-"}
        body   == IF signed THEN Tail(s) ELSE s
        dots   == { i \in DOMAIN body : body[i] = "." }
        dot    == IF dots = {} THEN Len(body) + 1 ELSE CHOOSE i \in dots : TRUE
        ip     == SubSeq(body, 1, dot - 1)
        fp     == SubSeq(body, dot + 1, Len(body))
        digits == ip \o fp
    IN  IF Cardinality(dots) <= 1 /\ IsDigit(digits)
        THEN [ ok  |-> TRUE,
               val |-> (IF signed /\ Head(s) = "-" THEN -1 ELSE 1)
                         * ((NatOf(digits) * Unit) \div Pow10(Len(fp))) ]
        ELSE NotANumber

\* d.replace('.', '', 1)
RECURSIVE ReplaceFirstDot(_)
ReplaceFirstDot(d) ==
    IF d = <<>> THEN <<>>
    ELSE IF Head(d) = "." THEN Tail(d)
    ELSE <<Head(d)>> \o ReplaceFirstDot(Tail(d))

RECURSIVE Sum(_)
Sum(h) == IF h = <<>> THEN 0 ELSE Head(h) + Sum(Tail(h))

\* np.mean(h_list), as the fraction n/d
Mean(h) == [n |-> Sum(h), d |-> Len(h)]

\* (avg_h * L_char) / k_fluid, as the fraction n/d
Nusselt(avg, L, k) == [n |-> avg.n * L, d |-> avg.d * k]

----------------------------------------------------------------------------
(* post_process.py: parse_h_values *)

\* the loop body of parse_h_values, with ")" closing the list only once it
\* was opened
ParseLine_CloseOnlyAfterOpen(st, line) ==
    IF Strip(line) = <<"(">> THEN [st EXCEPT !.data_started = TRUE]
    ELSE IF Strip(line) = <<")">> /\ st.data_started THEN [st EXCEPT !.stop = TRUE]
    ELSE IF st.data_started /\ Float(Strip(line)).ok
    THEN [st EXCEPT !.h_values = Append(@, Float(Strip(line)).val)]
    ELSE st

\* the loop body of parse_h_values, with a line that is no number ending the
\* loop
ParseLine_BreakOnNoise(st, line) ==
    IF Strip(line) = <<"(">> THEN [st EXCEPT !.data_started = TRUE]
    ELSE IF Strip(line) = <<")">> THEN [st EXCEPT !.stop = TRUE]
    ELSE IF st.data_started
    THEN IF Float(Strip(line)).ok
         THEN [st EXCEPT !.h_values = Append(@, Float(Strip(line)).val)]
         ELSE [st EXCEPT !.stop = TRUE]
    ELSE st

\* the loop body of parse_h_values (post_process.py 30-39); stop = break
ParseLine(st, line) ==
    IF Strip(line) = <<"(">> THEN [st EXCEPT !.data_started = TRUE]
    ELSE IF Strip(line) = <<")">> THEN [st EXCEPT !.stop = TRUE]
    ELSE IF st.data_started /\ Float(Strip(line)).ok
    THEN [st EXCEPT !.h_values = Append(@, Float(Strip(line)).val)]
    ELSE st

ParseStart == [data_started |-> FALSE, h_values |-> <<>>, stop |-> FALSE]

RECURSIVE ParseFrom(_, _)
ParseFrom(st, lines) ==
    IF lines = <<>> \/ st.stop THEN st.h_values
    ELSE ParseFrom(ParseLine(st, Head(lines)), Tail(lines))

\* parse_h_values(filepath) for a file that exists
ParseHValues(lines) == ParseFrom(ParseStart, lines)

\* the lines of the field files of the model
FieldLines ==
    { <<"(", "\n">>, <<")", "\n">>,
      <<"1", "0", "\n">>, <<" ", "2", ".", "5", " ", "\n">>,
      <<"f", "o", "o", "\n">>, <<"\n">> }

InitParse ==
    /\ p_lines \in SeqsUpTo(FieldLines, MaxFieldLines)
    /\ p_idx = 1
    /\ data_started = FALSE
    /\ h_values = <<>>
    /\ p_pc = "loop"
    /\ PipeIdle
    /\ ExtractIdle

\* post_process.py 29-39: one iteration
ParseIteration ==
    /\ p_pc = "loop"
    /\ p_idx <= Len(p_lines)
    /\ LET st == ParseLine([data_started |-> data_started, h_values |-> h_values,
                            stop |-> FALSE], p_lines[p_idx])
       IN  /\ data_started' = st.data_started
           /\ h_values' = st.h_values
           /\ p_pc' = IF st.stop THEN "returned" ELSE "loop"
           /\ p_idx' = IF st.stop THEN p_idx ELSE p_idx + 1
    /\ UNCHANGED <<p_lines, pipeVars, extractVars>>

\* post_process.py 29, 40: the lines are used up
ParseReturn ==
    /\ p_pc = "loop"
    /\ p_idx > Len(p_lines)
    /\ p_pc' = "returned"
    /\ UNCHANGED <<p_lines, p_idx, data_started, h_values, pipeVars, extractVars>>

NextParse == ParseIteration \/ ParseReturn

SpecParse == InitParse /\ [][NextParse]_vars

----------------------------------------------------------------------------
(* post_process.py: the Nusselt-number series *)

\* names of the entries of a case directory
EntryNames ==
    { <<"1">>, <<"1", ".">>, <<"9">>, <<"1", "0">>,
      <<"1", ".", "2", ".", "3">>, <<"c">> }

\* wallHeatTransferCoeff files: two values around a line of noise; a list
\* closed before it opens; a list of noise only
FieldFiles ==
    { << <<"(", "\n">>, <<"1", "0", "\n">>, <<"f", "o", "o", "\n">>,
         <<" ", "2", ".", "5", " ", "\n">>, <<")", "\n">> >>,
      << <<")", "\n">>, <<"(", "\n">>, <<"1", "0", "\n">> >>,
      << <<"(", "\n">>, <<"f", "o", "o", "\n">>, <<")", "\n">> >> }

\* an entry: a regular file, or a directory with or without the field file
EntryKinds ==
    { [isdir |-> FALSE, has_field |-> FALSE, field |-> <<>>],
      [isdir |-> TRUE,  has_field |-> FALSE, field |-> <<>>] }
    \cup { [isdir |-> TRUE, has_field |-> TRUE, field |-> f] : f \in FieldFiles }

Header == "Time,Average_h,Nusselt"

NoCsv == [exists |-> FALSE, header |-> "", rows |-> <<>>]

\* a series left by an earlier post-processing of the directory
StaleCsv ==
    [ exists |-> TRUE, header |-> Header,
      rows   |-> << [t |-> <<"7">>, avg_h |-> [n |-> 1, d |-> 1],
                     nusselt_number |-> [n |-> 1, d |-> 1]] >> ]

\* the test of line 47 on the name; isdir is tested beside it
IsTimeDirName(d) == IsDigit(ReplaceFirstDot(d))

\* post_process.py 46-47, without the os.path.isdir test
TimeDirNames_NoIsdir(listing) ==
    { d \in DOMAIN listing : IsTimeDirName(d) }

\* post_process.py 46-47: the names kept
TimeDirNames(listing) ==
    { d \in DOMAIN listing : listing[d].isdir /\ IsTimeDirName(d) }

RECURSIVE Orderings(_)
Orderings(S) ==
    IF S = {} THEN { <<>> }
    ELSE UNION { { <<x>> \o q : q \in Orderings(S \ {x}) } : x \in S }

\* post_process.py 48: list.sort(key=float) is stable and os.listdir gives the
\* names in any order, so names of equal value come out in either order
SortedByFloat_ListingOrder(S) == Orderings(S)

SortedByFloat(S) ==
    { q \in Orderings(S) :
        \A i, j \in DOMAIN q : i < j => Float(q[i]).val <= Float(q[j]).val }

\* thermal conductivities given on the command line, in tenths; 0 (a nusselt
\* of inf or nan) is left out
Conductivities == { 6, 12 }

InitExtract ==
    /\ \E S \in { T \in SUBSET EntryNames : Cardinality(T) <= MaxEntries } :
         entries \in [S -> EntryKinds]
    /\ csv \in { NoCsv, StaleCsv }
    /\ time_dirs = <<>>
    /\ t_idx = 0
    /\ examined = {}
    /\ diag = <<>>
    /\ L_char = 2
    /\ k_fluid \in Conductivities
    /\ x_pc = "start"
    /\ PipeIdle
    /\ ParseIdle

\* post_process.py 42-48
ListTimeDirs ==
    /\ x_pc = "start"
    /\ time_dirs' \in SortedByFloat(TimeDirNames(entries))
    /\ diag' = Append(diag, "calculating")
    /\ x_pc' = "listed"
    /\ UNCHANGED <<entries, csv, t_idx, examined, L_char, k_fluid, pipeVars, parseVars>>

\* post_process.py 50-52
Abort ==
    /\ x_pc = "listed"
    /\ time_dirs = <<>>
    /\ diag' = Append(diag, "error:no time directories")
    /\ x_pc' = "returned"
    /\ UNCHANGED <<entries, csv, time_dirs, t_idx, examined, L_char, k_fluid,
                   pipeVars, parseVars>>

\* post_process.py 54-55
OpenCsv ==
    /\ x_pc = "listed"
    /\ time_dirs # <<>>
    /\ csv' = [exists |-> TRUE, header |-> Header, rows |-> <<>>]
    /\ t_idx' = 1
    /\ x_pc' = "loop"
    /\ UNCHANGED <<entries, time_dirs, examined, diag, L_char, k_fluid,
                   pipeVars, parseVars>>

\* post_process.py 56-66: one iteration
Timestep ==
    /\ x_pc = "loop"
    /\ t_idx <= Len(time_dirs)
    /\ LET t      == time_dirs[t_idx]
           h_list == ParseHValues(entries[t].field)
           avg_h  == Mean(h_list)
       IN  /\ examined' = examined \cup {t}
           /\ IF entries[t].has_field /\ h_list # <<>>
              THEN /\ csv' = [csv EXCEPT !.rows = Append(@,
                                [ t |-> t, avg_h |-> avg_h,
                                  nusselt_number |-> Nusselt(avg_h, L_char, k_fluid) ])]
                   /\ diag' = Append(diag, "time")
              ELSE UNCHANGED <<csv, diag>>
    /\ t_idx' = t_idx + 1
    /\ UNCHANGED <<entries, time_dirs, L_char, k_fluid, x_pc, pipeVars, parseVars>>

\* post_process.py 56, 68: the loop is over, the file is closed
Saved ==
    /\ x_pc = "loop"
    /\ t_idx > Len(time_dirs)
    /\ diag' = Append(diag, "saved")
    /\ x_pc' = "render"
    /\ UNCHANGED <<entries, csv, time_dirs, t_idx, examined, L_char, k_fluid,
                   pipeVars, parseVars>>

NextExtract ==
    \/ ListTimeDirs
    \/ Abort
    \/ OpenCsv
    \/ Timestep
    \/ Saved

SpecExtract == InitExtract /\ [][NextExtract]_vars

----------------------------------------------------------------------------
(* Parameter injection: C1, C2, C3 (checked under SpecInject) *)

ControlKeys == { K_startTime, K_endTime, K_deltaT }

PhysicalKeys == { K_mu, K_Pr }

\* positions of a session at which the file has been rewritten
AfterControl == { "update_physical", "return_case", "popen" }

AfterPhysical == { "return_case", "popen" }

Before(name) == template.files[name]

After(r, name) == cases[session[r].cdir].files[name]

Last(q) == q[Len(q)]

BeginsWithKey(line, keys) == \E k \in keys : StartsWith(Strip(line), k)

\* every line but the last ends in its only newline; the last has none inside
WellTerminated(file) ==
    \A i \in 1..Len(file) :
        /\ \A j \in 1..(Len(file[i]) - 1) : file[i][j] # "\n"
        /\ i < Len(file) => (file[i] # <<>> /\ Last(file[i]) = "\n")

FrameKept(before, after, keys) ==
    /\ Len(after) = Len(before)
    /\ WellTerminated(after)
    /\ \A i \in 1..Len(before) :
        ~BeginsWithKey(before[i], keys) => after[i] = before[i]

\* C1: after _update_control_dict and _update_physical_properties the file
\* has as many lines as before, and every line whose trimmed content does not
\* begin with a key of that file stands unchanged at its position.
C1_InjectionKeepsFrame ==
    \A r \in Sessions :
        /\ session[r].pc \in AfterControl =>
             FrameKept(Before("controlDict"), After(r, "controlDict"), ControlKeys)
        /\ session[r].pc \in AfterPhysical =>
             FrameKept(Before("physicalProperties"), After(r, "physicalProperties"),
                       PhysicalKeys)

\* a finished injection into a file of several lines, one of them an indented
\* line of neither file's keys, another one rewritten in each file
C1_Witness ==
    /\ session[1].pc = "popen"
    /\ Len(Before("controlDict")) >= 2
    /\ \E i \in 1..Len(Before("controlDict")) :
        /\ ~BeginsWithKey(Before("controlDict")[i], ControlKeys \cup PhysicalKeys)
        /\ Len(Split(Before("controlDict")[i])) >= 2
        /\ Head(Before("controlDict")[i]) \in Whitespace
    /\ After(1, "controlDict") # Before("controlDict")

\* a line in the format of the configuration files: the key, possibly more
\* tokens, and a last token that ends in ";"
IsParameterLine(line, key) ==
    LET t == Split(line) IN
    /\ Len(t) >= 2
    /\ t[1] = key
    /\ Last(Last(t)) = ";"

\* the last token without its ";"
ValueToken(line) ==
    LET v == Last(Split(line)) IN SubSeq(v, 1, Len(v) - 1)

KeyValue(p, key) ==
    IF key = K_startTime THEN p.startTime
    ELSE IF key = K_endTime THEN p.endTime
    ELSE IF key = K_deltaT THEN p.deltaT
    ELSE IF key = K_mu THEN p.mu
    ELSE p.Pr

Injected(file, keys, p) ==
    \A i \in 1..Len(file) : \A k \in keys :
        IsParameterLine(file[i], k) => ValueToken(file[i]) = KeyValue(p, k)

\* C2: after create_case_from_template every line of the relevant file that
\* begins with one of the five keys carries the supplied value as its value
\* token, whatever whitespace separates key and value.
C2_ParametersInjected ==
    \A r \in Sessions :
        session[r].pc = "popen" =>
            /\ Injected(After(r, "controlDict"), ControlKeys, session[r].params)
            /\ Injected(After(r, "physicalProperties"), PhysicalKeys, session[r].params)

\* the line with only its last token replaced by the value and ";"
KeepLayout(line, value) ==
    LET body == RStrip(line) IN
    SubSeq(body, 1, Len(body) - Len(Last(Split(line)))) \o value \o <<";">>

\* the key whose test the code's if/elif chain takes for this line
MatchedControlKey(line) ==
    IF StartsWith(Strip(line), K_startTime) THEN K_startTime
    ELSE IF StartsWith(Strip(line), K_endTime) THEN K_endTime
    ELSE K_deltaT

MatchedPhysicalKey(line) ==
    IF StartsWith(Strip(line), K_mu \o <<" ">>) THEN K_mu ELSE K_Pr

RewrittenPhysical(line) ==
    \E k \in PhysicalKeys : StartsWith(Strip(line), k \o <<" ">>)

\* C3 as stated: a rewritten parameter line differs from the template line in
\* its value token only (indentation, tokens and spacing before the value, ";").
C3_OnlyValueTokenChanges ==
    \A r \in Sessions :
        session[r].pc = "popen" =>
            /\ \A i \in 1..Len(Before("controlDict")) : \A k \in ControlKeys :
                 IsParameterLine(Before("controlDict")[i], k) =>
                    RStrip(After(r, "controlDict")[i])
                      = KeepLayout(Before("controlDict")[i], KeyValue(session[r].params, k))
            /\ \A i \in 1..Len(Before("physicalProperties")) : \A k \in PhysicalKeys :
                 ( /\ IsParameterLine(Before("physicalProperties")[i], k)
                   /\ RewrittenPhysical(Before("physicalProperties")[i]) ) =>
                    RStrip(After(r, "physicalProperties")[i])
                      = KeepLayout(Before("physicalProperties")[i],
                                   KeyValue(session[r].params, k))

\* column at which _update_control_dict puts the value
ValueColumn == Len(K_startTime) + PadStartTime

\* C3 as amended: a rewritten line keeps tokens, not layout. It has no
\* indentation and ends in the value, ";" and a newline. In physicalProperties
\* it is the tokens before the last, then the value with ";", one space
\* apart; in controlDict it is the key, spaces up to the value column, the
\* value and ";", nothing else of the line.
C3_RewriteNormalisesLayout ==
    \A r \in Sessions :
        session[r].pc = "popen" =>
            /\ \A i \in 1..Len(Before("controlDict")) :
                 LET in  == Before("controlDict")[i]
                     out == After(r, "controlDict")[i]
                     k   == MatchedControlKey(in)
                     v   == KeyValue(session[r].params, k)
                 IN  BeginsWithKey(in, ControlKeys) =>
                       /\ StartsWith(out, k)
                       /\ \A j \in (Len(k) + 1)..ValueColumn : out[j] = " "
                       /\ SubSeq(out, ValueColumn + 1, Len(out)) = v \o <<";", "\n">>
            /\ \A i \in 1..Len(Before("physicalProperties")) :
                 LET in  == Before("physicalProperties")[i]
                     out == After(r, "physicalProperties")[i]
                     k   == MatchedPhysicalKey(in)
                     v   == KeyValue(session[r].params, k)
                     n   == Len(Split(in))
                 IN  RewrittenPhysical(in) =>
                       /\ n >= 2
                       /\ Head(out) \notin Whitespace
                       /\ out = Join(SubSeq(Split(in), 1, n - 1)) \o <<" ">>
                                   \o v \o <<";", "\n">>

\* a finished injection into a file that holds an indented mu line with a
\* token between key and value, and an indented deltaT line
C3_Witness ==
    /\ session[1].pc = "popen"
    /\ \E i \in 1..Len(Before("physicalProperties")) :
        LET in == Before("physicalProperties")[i] IN
        /\ IsParameterLine(in, K_mu)
        /\ RewrittenPhysical(in)
        /\ Head(in) \in Whitespace
        /\ Len(Split(in)) = 3
    /\ \E i \in 1..Len(Before("controlDict")) :
        LET in == Before("controlDict")[i] IN
        /\ IsParameterLine(in, K_deltaT)
        /\ Head(in) \in Whitespace

----------------------------------------------------------------------------
(* The stages of a run: C4 (SpecRace), C5 (Spec), C6 (SpecRace) *)

\* C4: the solver is started only after create_case_from_template returned a
\* case directory, post-processing only after run_simulation returned; when
\* create_case_from_template raises, the handler shows the error and starts
\* neither the solver nor post-processing in that run.
C4_StagesInOrder ==
    \A r \in Sessions :
        LET s == session[r] IN
        /\ s.spawned > 0 => s.created
        /\ s.pc \in {"read", "wait"} => s.created
        /\ s.post_started => s.returned
        /\ s.returned => s.spawned > 0
        /\ (s.err # "" /\ ~s.created) =>
              /\ s.spawned = 0
              /\ ~s.post_started
              /\ s.pc \in {"except", "done"}
              /\ s.pc = "done" => Last(s.ui) = "error:exception"

\* one session went through all three stages while the other one's
\* create_case_from_template raised and its error was shown
C4_Witness ==
    \E r1, r2 \in Sessions :
        /\ session[r1].pc = "done" /\ session[r1].post_started
        /\ session[r1].returned /\ session[r1].created
        /\ session[r2].pc = "done" /\ session[r2].err # ""
        /\ ~session[r2].created
        /\ Last(session[r2].ui) = "error:exception"

RECURSIVE Flatten(_)
Flatten(lines) ==
    IF lines = <<>> THEN <<>> ELSE Head(lines) \o Flatten(Tail(lines))

\* C5: run_simulation spawns one child, returns only after the child has
\* terminated, and returns the concatenation, in order, of every line the
\* child wrote, whatever the exit status.
C5_RunSimulationReturnsFullLog ==
    \A r \in Sessions :
        /\ session[r].spawned <= 1
        /\ session[r].pc \in {"read", "wait"} => session[r].spawned = 1
        /\ session[r].pc \in {"post", "show"} =>
              /\ session[r].returned
              /\ session[r].spawned = 1
              /\ child[r].state = "exited"
              /\ child[r].pipe = <<>>
              /\ session[r].logs = Flatten(child[r].emitted)

\* run_simulation returned the two different lines of a child that exited
\* with a non-zero status
C5_Witness ==
    \E r \in Sessions :
        /\ session[r].pc = "post"
        /\ child[r].exit # 0
        /\ Len(child[r].emitted) = MaxOut
        /\ child[r].emitted[1] # child[r].emitted[2]
        /\ session[r].logs = Flatten(child[r].emitted)

Stamped(r) == session[r].pc \notin {"off", "button", "upload", "strftime"}
                 /\ session[r].run_id # <<>>

\* C6: two create_case_from_template invocations whose timestamps fall in the
\* same second compute the same case directory.
C6_SameSecondSameCaseDir ==
    \A r1, r2 \in Sessions :
        ( /\ Stamped(r1) /\ Stamped(r2)
          /\ session[r1].stamp = session[r2].stamp ) =>
            session[r1].cdir = session[r2].cdir

\* the parameters a case directory's controlDict was injected with
HoldsParamsOf(d, r) ==
    /\ d \in DOMAIN cases
    /\ "controlDict" \in DOMAIN cases[d].files
    /\ cases[d].files["controlDict"]
         = UpdateControlDict(SourceTemplate.files["controlDict"], session[r].params)

\* the solver of one session runs in a case directory that a later session of
\* the same second removed and rebuilt: it holds the other session's
\* parameters and geometry
C6_Witness ==
    \E r1, r2 \in Sessions :
        /\ r1 # r2
        /\ session[r1].stamp = session[r2].stamp
        /\ session[r1].pc = "read"
        /\ session[r1].case_dir = session[r2].cdir
        /\ HoldsParamsOf(session[r1].case_dir, r2)
        /\ ~HoldsParamsOf(session[r1].case_dir, r1)
        /\ cases[session[r1].case_dir].tri.files = ("wing.stl" :> r2)

\* the solver of one session runs while its case directory is gone
C6_WitnessMissing ==
    \E r1, r2 \in Sessions :
        /\ r1 # r2
        /\ session[r1].pc = "read"
        /\ session[r2].pc = "copytree"
        /\ session[r1].case_dir \notin DOMAIN cases

----------------------------------------------------------------------------
(* Extraction: C7, C8, C10 (SpecExtract) and C9 (SpecParse) *)

\* a non-negative decimal number: digits, at most one point among them
IsDecimalNumber(d) ==
    /\ \A i \in DOMAIN d : d[i] \in Digits \cup {"."}
    /\ Cardinality({ i \in DOMAIN d : d[i] = "." }) <= 1
    /\ \E i \in DOMAIN d : d[i] \in Digits

\* the timestep directories of the case directory
TimestepDirs == { d \in DOMAIN entries : entries[d].isdir /\ IsDecimalNumber(d) }

SetMin(S) == CHOOSE x \in S : \A y \in S : x <= y

\* the numbers on the lines after a "(" line and before the first ")" line
NumericBetweenParens(lines) ==
    LET closes == { i \in DOMAIN lines : Strip(lines[i]) = <<")">> }
        stop   == IF closes = {} THEN Len(lines) + 1 ELSE SetMin(closes)
        opened(i) == \E j \in 1..(i - 1) : Strip(lines[j]) = <<"(">>
        F[i \in 0..Len(lines)] ==
            IF i = 0 THEN <<>>
            ELSE IF i < stop /\ opened(i) /\ Float(Strip(lines[i])).ok
            THEN Append(F[i - 1], Float(Strip(lines[i])).val)
            ELSE F[i - 1]
    IN  F[Len(lines)]

\* the file without the lines between the parentheses that are no numbers
WithoutNoise(lines) ==
    LET closes == { i \in DOMAIN lines : Strip(lines[i]) = <<")">> }
        stop   == IF closes = {} THEN Len(lines) + 1 ELSE SetMin(closes)
        noise(i) ==
            /\ i < stop
            /\ \E j \in 1..(i - 1) : Strip(lines[j]) = <<"(">>
            /\ Strip(lines[i]) # <<"(">>
            /\ ~Float(Strip(lines[i])).ok
        F[i \in 0..Len(lines)] ==
            IF i = 0 THEN <<>>
            ELSE IF noise(i) THEN F[i - 1] ELSE Append(F[i - 1], lines[i])
    IN  F[Len(lines)]

HasNoise(lines) == WithoutNoise(lines) # lines

\* the timesteps that give a row
ValidTimesteps ==
    { d \in TimestepDirs :
        entries[d].has_field /\ NumericBetweenParens(entries[d].field) # <<>> }

RowTimes(rows) == { rows[i].t : i \in DOMAIN rows }

\* C7: with no subdirectory named by a non-negative decimal number the
\* extraction reports an error and returns; nusselt_numbers.csv is neither
\* created nor written.
C7_NoTimeDirsNoCsv ==
    TimestepDirs = {} =>
        /\ csv \in { NoCsv, StaleCsv }
        /\ examined = {}
        /\ x_pc \in { "start", "listed", "returned" }
        /\ x_pc = "returned" => Last(diag) = "error:no time directories"

\* the extraction returned on a case directory that holds a regular file with
\* a number for a name and a directory, with a field file, named otherwise
C7_Witness ==
    /\ x_pc = "returned"
    /\ csv = NoCsv
    /\ \E d \in DOMAIN entries : ~entries[d].isdir /\ IsDecimalNumber(d)
    /\ \E d \in DOMAIN entries :
          entries[d].isdir /\ entries[d].has_field /\ ~IsDecimalNumber(d)

\* C8: the CSV holds one row for each timestep directory whose field file
\* exists and gives a value, none for any other, in ascending order of the
\* timestep; a timestep without a row does not stop the later ones.
C8_RowsAreTheValidTimesteps ==
    /\ x_pc = "loop" =>
          /\ RowTimes(csv.rows) = ValidTimesteps \cap examined
          /\ Len(csv.rows) = Cardinality(ValidTimesteps \cap examined)
    /\ x_pc = "render" =>
          /\ examined = TimestepDirs
          /\ RowTimes(csv.rows) = ValidTimesteps
          /\ Len(csv.rows) = Cardinality(ValidTimesteps)
    /\ \A i, j \in DOMAIN csv.rows :
          (x_pc \in {"loop", "render"} /\ i < j) =>
              Float(csv.rows[i].t).val <= Float(csv.rows[j].t).val

\* the series of three timesteps of which the middle one has no field file,
\* the last one sorting before the others as a string
C8_Witness ==
    /\ x_pc = "render"
    /\ Len(csv.rows) = 2
    /\ csv.rows[1].t = <<"1">>
    /\ csv.rows[2].t = <<"1", "0">>
    /\ <<"9">> \in TimestepDirs
    /\ ~entries[<<"9">>].has_field

\* C10: with a timestep directory present the CSV is created anew and its
\* header written before any field file is looked at; if no timestep gives a
\* value the CSV holds the header only and no error is reported, also for a
\* field file whose ")" line comes before its "(" line.
C10_HeaderBeforeFields ==
    /\ (examined # {} \/ x_pc \in {"loop", "render"}) =>
          /\ csv.exists
          /\ csv.header = Header
          /\ RowTimes(csv.rows) \subseteq examined
    /\ (x_pc = "loop" /\ examined = {}) => csv.rows = <<>>
    /\ (x_pc = "render" /\ ValidTimesteps = {}) =>
          /\ csv = [exists |-> TRUE, header |-> Header, rows |-> <<>>]
          /\ diag = <<"calculating", "saved">>

\* a finished extraction over a timestep without field file and one whose
\* field file closes its list before opening it
C10_Witness ==
    /\ x_pc = "render"
    /\ csv = [exists |-> TRUE, header |-> Header, rows |-> <<>>]
    /\ \E d \in TimestepDirs : ~entries[d].has_field
    /\ \E d \in TimestepDirs :
          /\ entries[d].has_field
          /\ Strip(entries[d].field[1]) = <<")">>
          /\ \E i, j \in DOMAIN entries[d].field :
                /\ i < j
                /\ Strip(entries[d].field[i]) = <<"(">>
                /\ Float(Strip(entries[d].field[j])).ok

\* C9: parse_h_values returns the numbers of the lines between the "(" line
\* and the ")" line; lines there that are no numbers are skipped, so values,
\* average and nusselt are those of the file without them.
C9_ParseSkipsNoise ==
    p_pc = "returned" =>
        /\ h_values = NumericBetweenParens(p_lines)
        /\ h_values = ParseHValues(WithoutNoise(p_lines))
        /\ \A k \in Conductivities :
              Nusselt(Mean(h_values), 2, k)
                = Nusselt(Mean(ParseHValues(WithoutNoise(p_lines))), 2, k)

\* the parse of "(", a number, noise, a number, ")" returned both numbers
C9_Witness ==
    /\ p_pc = "returned"
    /\ Len(p_lines) = 5
    /\ Strip(p_lines[1]) = <<"(">>
    /\ Float(Strip(p_lines[2])).ok
    /\ ~Float(Strip(p_lines[3])).ok
    /\ Float(Strip(p_lines[4])).ok
    /\ Strip(p_lines[5]) = <<")">>
    /\ HasNoise(p_lines)
    /\ Len(h_values) = 2

====
